---- MODULE Spec2Model ----
(***************************************************************************)
(* p2p_analytics: aggregation functions over P2P listing tables.           *)
(*                                                                         *)
(* The loader's parquet files are the state (fiat, master, bcb); a call    *)
(* of a public function reads them through the loader, computes a result   *)
(* table (or raises) and returns.  Tables are sequences of rows, a row is  *)
(* a function from column names to values, a frame is a column set plus    *)
(* its rows.  Column values computed by pandas are IEEE floats: exact      *)
(* rationals extended with NaN and the two infinities.                     *)
(***************************************************************************)
EXTENDS Integers, Sequences, FiniteSets, TLC

VARIABLES fiat, master, bcb, pc, call, outcome, result, loads, ties, history

vars == <<fiat, master, bcb, pc, call, outcome, result, loads, ties, history>>

-----------------------------------------------------------------------------
(* Bounds of the model. *)

MaxRows == 3
MaxVolumeRows == 3
MaxMerchantRows == 3
MaxArgRows == 2
MaxVolDates == 4
MaxSummaryDates == 2
MaxPremiumDates == 3
MaxWindow == 3
MaxN == 2
MaxSideRows == 3
MaxCalls == 3
MaxCallRows == 2

(* Program constants. *)

PctScale == 100
FirstDate == 20251207

Currencies == <<"ARS", "BOB">>
CurrencySet == {Currencies[i] : i \in 1..Len(Currencies)}

-----------------------------------------------------------------------------
(* Float arithmetic as pandas/numpy perform it (IEEE 754, no exceptions). *)

Abs(x) == IF x < 0 THEN -x ELSE x

Sign(x) == IF x < 0 THEN -1 ELSE 1

RECURSIVE GCD(_, _)
GCD(a, b) == IF b = 0 THEN a ELSE GCD(b, a % b)

NaN == [k |-> "nan", n |-> 0, d |-> 0]

Inf(s) == [k |-> "inf", n |-> s, d |-> 0]

Num(n, d) ==
    LET g == GCD(Abs(n), d)
    IN [k |-> "num", n |-> n \div g, d |-> d \div g]

IsNaN(x) == x.k = "nan"
IsInf(x) == x.k = "inf"
IsNum(x) == x.k = "num"

FNeg(a) ==
    CASE IsNaN(a) -> NaN
      [] IsInf(a) -> Inf(-a.n)
      [] OTHER -> Num(-a.n, a.d)

FAdd(a, b) ==
    CASE IsNaN(a) \/ IsNaN(b) -> NaN
      [] IsInf(a) /\ IsInf(b) -> IF a.n = b.n THEN a ELSE NaN
      [] IsInf(a) -> a
      [] IsInf(b) -> b
      [] OTHER -> Num(a.n * b.d + b.n * a.d, a.d * b.d)

FSub(a, b) == FAdd(a, FNeg(b))

FAbs(a) ==
    CASE IsNaN(a) -> NaN
      [] IsInf(a) -> Inf(1)
      [] OTHER -> Num(Abs(a.n), a.d)

FMul(a, b) ==
    CASE IsNaN(a) \/ IsNaN(b) -> NaN
      [] IsInf(a) /\ IsInf(b) -> Inf(a.n * b.n)
      [] IsInf(a) -> IF b.n = 0 THEN NaN ELSE Inf(a.n * Sign(b.n))
      [] IsInf(b) -> IF a.n = 0 THEN NaN ELSE Inf(b.n * Sign(a.n))
      [] OTHER -> Num(a.n * b.n, a.d * b.d)

FDiv(a, b) ==
    CASE IsNaN(a) \/ IsNaN(b) -> NaN
      [] IsInf(a) /\ IsInf(b) -> NaN
      [] IsInf(a) -> Inf(a.n * Sign(b.n))
      [] IsInf(b) -> Num(0, 1)
      [] b.n = 0 -> IF a.n = 0 THEN NaN ELSE Inf(Sign(a.n))
      [] OTHER -> Num(a.n * b.d * Sign(b.n), a.d * Abs(b.n))

FLess(a, b) == IsNum(a) /\ IsNum(b) /\ a.n * b.d < b.n * a.d

FLeq(a, b) == IsNum(a) /\ IsNum(b) /\ a.n * b.d <= b.n * a.d

RECURSIVE FSum(_)
FSum(s) == IF s = <<>> THEN Num(0, 1) ELSE FAdd(Head(s), FSum(Tail(s)))

FMean(s) == IF s = <<>> THEN NaN ELSE FDiv(FSum(s), Num(Len(s), 1))

RECURSIVE FMin(_)
FMin(s) ==
    IF s = <<>> THEN NaN
    ELSE IF Len(s) = 1 THEN Head(s)
    ELSE LET m == FMin(Tail(s)) IN IF FLess(Head(s), m) THEN Head(s) ELSE m

RECURSIVE FMax(_)
FMax(s) ==
    IF s = <<>> THEN NaN
    ELSE IF Len(s) = 1 THEN Head(s)
    ELSE LET m == FMax(Tail(s)) IN IF FLess(m, Head(s)) THEN Head(s) ELSE m

-----------------------------------------------------------------------------
(* Frames. *)

Frame(cols, rows) == [cols |-> cols, rows |-> rows]

EmptyFrame == Frame({}, <<>>)

ListingCols ==
    {"scrape_datetime", "date", "currency", "side", "price", "max_amount",
     "merchant_name", "finish_rate", "positive_rate", "run_index"}

RateCols == {"date", "currency", "official_exchange_rate"}

Col(s, c) == [i \in 1..Len(s) |-> s[i][c]]

Floats(s) == [i \in 1..Len(s) |-> Num(s[i], 1)]

(* Column assignment s[c] = vals, with vals one value per row of s. *)
WithCol(s, c, vals) ==
    [i \in 1..Len(s) |->
        [x \in DOMAIN s[i] \cup {c} |-> IF x = c THEN vals[i] ELSE s[i][x]]]

Rename(name, map) == IF name \in DOMAIN map THEN map[name] ELSE name

RenameRows(s, map) ==
    [i \in 1..Len(s) |->
        [x \in {Rename(c, map) : c \in DOMAIN s[i]} |->
            s[i][CHOOSE c \in DOMAIN s[i] : Rename(c, map) = x]]]

(* Outcomes of a call. *)
Ok(frame) == [exc |-> "none", msg |-> "", frame |-> frame, loads |-> <<>>]

Raise(exc, msg) == [exc |-> exc, msg |-> msg, frame |-> EmptyFrame, loads |-> <<>>]

(* The outcome o of a call that performed the loader reads l before it. *)
Reads(l, o) == [o EXCEPT !.loads = l]

None == <<>>
Some(x) == <<x>>

-----------------------------------------------------------------------------
(* Loader. *)

load_binance_currency(currency) == fiat[currency]

load_binance_master == master

load_bcb_master == bcb

-----------------------------------------------------------------------------
(* Grouping and pivot. *)

CurrencyOrd(c) == CHOOSE i \in 1..Len(Currencies) : Currencies[i] = c

ColOrd(col, v) == IF col = "currency" THEN CurrencyOrd(v) ELSE v

(* Lexicographic order of two rows on the columns cols, in that order. *)
RECURSIVE KeyLess(_, _, _)
KeyLess(a, b, cols) ==
    IF cols = <<>> THEN FALSE
    ELSE LET c == Head(cols)
         IN \/ ColOrd(c, a[c]) < ColOrd(c, b[c])
            \/ /\ a[c] = b[c]
               /\ KeyLess(a, b, Tail(cols))

(* The rows of the set S, ascending on cols (the keys of S are distinct). *)
RECURSIVE SortKeys(_, _)
SortKeys(S, cols) ==
    IF S = {} THEN <<>>
    ELSE LET m == CHOOSE x \in S : \A y \in S \ {x} : KeyLess(x, y, cols)
         IN <<m>> \o SortKeys(S \ {m}, cols)

Range(s) == {s[i] : i \in 1..Len(s)}

KeyOf(row, cols) == [c \in Range(cols) |-> row[c]]

Keys(df, cols) == {KeyOf(df[i], cols) : i \in 1..Len(df)}

(* A date is the ISO day yyyymmdd, a scrape_datetime the stamp yyyymmddhh. *)
hour(scrape_datetime) == scrape_datetime % 100

WithHour(df) ==
    WithCol(df, "hour", [i \in 1..Len(df) |-> hour(df[i]["scrape_datetime"])])

Aggregate(how, values) ==
    CASE how = "mean" -> FMean(values)
      [] how = "sum" -> FSum(values)
      [] how = "min" -> FMin(values)
      [] how = "max" -> FMax(values)

(* The values of column value_col in the rows of df with key and side. *)
GroupValues(df, cols, key, side, value_col) ==
    Floats(Col(SelectSeq(df, LAMBDA r : KeyOf(r, cols) = key /\ r["side"] = side),
               value_col))

(* df.groupby(group_cols + ["side"])[value_col].agg(how)                  *)
(*   .pivot_table(index=group_cols, columns="side", values=value_col,     *)
(*                fill_value=fill).reset_index()                          *)
(* One row per key present, sorted on group_cols; one column per side     *)
(* label present in df; a (key, side) pair without rows holds fill.       *)
PivotBySide(df, group_cols, value_col, how, fill) ==
    LET sides == {df[i]["side"] : i \in 1..Len(df)}
        keys == SortKeys(Keys(df, group_cols), group_cols)
        cell(key, side) ==
            LET vs == GroupValues(df, group_cols, key, side, value_col)
            IN IF vs = <<>> THEN fill ELSE Aggregate(how, vs)
    IN Frame(Range(group_cols) \cup sides,
             [i \in 1..Len(keys) |->
                [c \in Range(group_cols) \cup sides |->
                    IF c \in Range(group_cols) THEN keys[i][c]
                    ELSE cell(keys[i], c)]])

RenameFrame(f, map) ==
    Frame({Rename(c, map) : c \in f.cols}, RenameRows(f.rows, map))

-----------------------------------------------------------------------------
(* spreads.py *)

(* The spread without the absolute value. *)
SpreadAbs_Signed(r) == FSub(r["avg_sell_price"], r["avg_buy_price"])

SpreadAbs(r) == FAbs(FSub(r["avg_sell_price"], r["avg_buy_price"]))

Mid(r) == FDiv(FAdd(r["avg_sell_price"], r["avg_buy_price"]), Num(2, 1))

SpreadPct(r) == FMul(FDiv(r["spread_abs"], Mid(r)), Num(PctScale, 1))

(* The spread columns of lines 49-51; a missing price column is a KeyError. *)
WithSpread(f) ==
    LET abs(s) == WithCol(s, "spread_abs", [i \in 1..Len(s) |-> SpreadAbs(s[i])])
        pct(s) == WithCol(s, "spread_pct", [i \in 1..Len(s) |-> SpreadPct(s[i])])
    IN IF ~({"avg_sell_price", "avg_buy_price"} \subseteq f.cols)
       THEN Raise("KeyError", "avg_price")
       ELSE Ok(Frame(f.cols \cup {"spread_abs", "spread_pct"}, pct(abs(f.rows))))

PriceNames == [BUY |-> "avg_buy_price", SELL |-> "avg_sell_price"]

_p2p_spread_core(df, currency, by) ==
    IF by \notin {"day", "hour"}
    THEN Raise("ValueError", "by must be 'day' or 'hour'.")
    ELSE LET df_cur == IF by = "hour" THEN WithHour(df) ELSE df
             group_cols == IF by = "hour" THEN <<"date", "hour">> ELSE <<"date">>
             withcur(grouped) ==
                 Frame(grouped.cols \cup {"currency"},
                       WithCol(grouped.rows, "currency",
                               [i \in 1..Len(grouped.rows) |-> currency]))
         IN WithSpread(withcur(RenameFrame(
                PivotBySide(df_cur, group_cols, "price", "mean", NaN),
                PriceNames)))

p2p_spread(currency, by) ==
    Reads(<<"historical_fiat">>,
          _p2p_spread_core(load_binance_currency(currency), currency, by))

fiat_comparison(currencies) ==
    LET df_sub == SelectSeq(load_binance_master, LAMBDA r : r["currency"] \in currencies)
        grouped == RenameFrame(
                       PivotBySide(df_sub, <<"date", "currency">>, "price", "mean", NaN),
                       PriceNames)
    IN Reads(<<"p2p_master">>, WithSpread(grouped))

MeanNames == [BUY |-> "mean_buy_price", SELL |-> "mean_sell_price"]

(* One row per hour over all days; no column is read after the pivot. *)
intraday_profile(currency) ==
    LET withcur(grouped) ==
            Frame(grouped.cols \cup {"currency"},
                  WithCol(grouped.rows, "currency",
                          [i \in 1..Len(grouped.rows) |-> currency]))
    IN Reads(<<"historical_fiat">>,
             Ok(withcur(RenameFrame(
                 PivotBySide(WithHour(load_binance_currency(currency)), <<"hour">>,
                             "price", "mean", NaN),
                 MeanNames))))

-----------------------------------------------------------------------------
(* microstructure.py *)

VolumeNames == [BUY |-> "buy_volume", SELL |-> "sell_volume"]

(* The ratio without the zero-denominator guard. *)
Imbalance_Unguarded(r) ==
    FDiv(FSub(r["buy_volume"], r["sell_volume"]),
         FAdd(r["buy_volume"], r["sell_volume"]))

(* Lines 41-48: 0.0 everywhere, the ratio where denom > 0. *)
Imbalance(r) ==
    LET denom == FAdd(r["buy_volume"], r["sell_volume"])
    IN IF FLess(Num(0, 1), denom)
       THEN FDiv(FSub(r["buy_volume"], r["sell_volume"]), denom)
       ELSE Num(0, 1)

_order_imbalance_core(df, currency, by) ==
    IF by # "hour"
    THEN Raise("NotImplementedError", "Only by='hour' is implemented for now.")
    ELSE LET volume(s) == WithCol(s, "volume", Col(s, "max_amount"))
             withcur(s) == WithCol(s, "currency", [i \in 1..Len(s) |-> currency])
             imbalance(s) ==
                 WithCol(s, "imbalance", [i \in 1..Len(s) |-> Imbalance(s[i])])
             finish(grouped) ==
                 IF ~({"buy_volume", "sell_volume"} \subseteq grouped.cols)
                 THEN Raise("KeyError", "volume")
                 ELSE Ok(Frame(grouped.cols \cup {"currency", "imbalance"},
                               imbalance(withcur(grouped.rows))))
         IN finish(RenameFrame(
                PivotBySide(volume(WithHour(df)), <<"date", "hour">>, "volume",
                            "sum", Num(0, 1)),
                VolumeNames))

order_imbalance(currency, by) ==
    Reads(<<"historical_fiat">>,
          _order_imbalance_core(load_binance_currency(currency), currency, by))

-----------------------------------------------------------------------------
(* summary.py *)

_prepare_time_grouping(df, by) ==
    IF by = "day"
    THEN [exc |-> "none", df |-> df, group_cols |-> <<"date", "currency">>]
    ELSE IF by = "hour"
    THEN [exc |-> "none", df |-> WithHour(df),
          group_cols |-> <<"date", "hour", "currency">>]
    ELSE [exc |-> "ValueError", df |-> <<>>, group_cols |-> <<>>]

(* str.lower() on the side labels of the model. *)
Lower(label) ==
    CASE label = "BUY" -> "buy"
      [] label = "SELL" -> "sell"
      [] label = "HOLD" -> "hold"
      [] OTHER -> label

(* Line 75-80: ('avg_price', 'BUY') -> 'avg_price_buy'. *)
Flatten(value, label) == value \o "_" \o Lower(label)

rename_map ==
    [avg_price_buy |-> "avg_buy_price", avg_price_sell |-> "avg_sell_price",
     min_price_buy |-> "min_buy_price", min_price_sell |-> "min_sell_price",
     max_price_buy |-> "max_buy_price", max_price_sell |-> "max_sell_price"]

Merge(f, g) == [x \in DOMAIN f \cup DOMAIN g |-> IF x \in DOMAIN f THEN f[x] ELSE g[x]]

(* Lines 54-91: the three aggregates per (bucket, side), pivoted, flattened, renamed. *)
SummaryPivot(df, group_cols) ==
    LET sides == {df[i]["side"] : i \in 1..Len(df)}
        part(value, how) ==
            RenameRows(
                RenameRows(PivotBySide(df, group_cols, "price", how, NaN).rows,
                           [l \in sides |-> Flatten(value, l)]),
                rename_map)
        join(avg, min, max) ==
            [i \in 1..Len(avg) |-> Merge(avg[i], Merge(min[i], max[i]))]
        frame(rows) == Frame(UNION {DOMAIN rows[i] : i \in 1..Len(rows)}, rows)
    IN frame(join(part("avg_price", "mean"), part("min_price", "min"),
                  part("max_price", "max")))

(* The row before row i whatever its group. *)
PrevInGroup_AnyGroup(rows, by, i) == i - 1

(* The row before row i in the group of column by's value; 0 when i is its first. *)
PrevInGroup(rows, by, i) ==
    LET before == {j \in 1..(i - 1) : rows[j][by] = rows[i][by]}
    IN IF before = {} THEN 0 ELSE CHOOSE j \in before : \A k \in before : k <= j

(* rows.groupby(by)[c].diff() at row i. *)
GroupDiff(rows, by, c, i) ==
    LET j == PrevInGroup(rows, by, i)
    IN IF j = 0 THEN NaN ELSE FSub(rows[i][c], rows[j][c])

(* rows.groupby(by)[c].pct_change() * 100 at row i. *)
GroupPctChange(rows, by, c, i) ==
    LET j == PrevInGroup(rows, by, i)
    IN IF j = 0 THEN NaN
       ELSE FMul(FSub(FDiv(rows[i][c], rows[j][c]), Num(1, 1)), Num(PctScale, 1))

SortCols(by) ==
    IF by = "hour" THEN <<"currency", "date", "hour">> ELSE <<"currency", "date">>

(* Lines 51-120 of p2p_summary, on the loaded table. *)
SummaryOf(df0, by) ==
    LET mid(s) == WithCol(s, "mid_price", [i \in 1..Len(s) |-> Mid(s[i])])
        abs(s) == WithCol(s, "spread_abs", [i \in 1..Len(s) |-> SpreadAbs(s[i])])
        pct(s) ==
            WithCol(s, "spread_pct",
                    [i \in 1..Len(s) |->
                        FMul(FDiv(s[i]["spread_abs"], s[i]["mid_price"]),
                             Num(PctScale, 1))])
        changes(sorted) ==
            [i \in 1..Len(sorted) |->
                Merge(sorted[i],
                      [mid_price_change |->
                           GroupDiff(sorted, "currency", "mid_price", i),
                       mid_price_pct_change |->
                           GroupPctChange(sorted, "currency", "mid_price", i),
                       spread_abs_change |->
                           GroupDiff(sorted, "currency", "spread_abs", i),
                       spread_pct_change |->
                           GroupDiff(sorted, "currency", "spread_pct", i)])]
        finish(summary) ==
            IF ~({"avg_buy_price", "avg_sell_price"} \subseteq summary.cols)
            THEN Raise("KeyError", "avg_price")
            ELSE Ok(Frame(summary.cols \cup
                            {"mid_price", "spread_abs", "spread_pct",
                             "mid_price_change", "mid_price_pct_change",
                             "spread_abs_change", "spread_pct_change"},
                          changes(SortKeys(Range(pct(abs(mid(summary.rows)))),
                                           SortCols(by)))))
        grouped(prep) ==
            IF prep.exc # "none"
            THEN Raise("ValueError", "by must be 'day' or 'hour'.")
            ELSE finish(SummaryPivot(prep.df, prep.group_cols))
    IN grouped(_prepare_time_grouping(df0, by))

(* The summary that prefers currencies when both selectors are given. *)
p2p_summary_NoBothCheck(currency, currencies, by) ==
    IF currencies # None
    THEN Reads(<<"p2p_master">>,
               SummaryOf(SelectSeq(load_binance_master,
                                LAMBDA r : r["currency"] \in currencies[1]), by))
    ELSE IF currency # None
    THEN Reads(<<"historical_fiat">>,
               SummaryOf(load_binance_currency(currency[1]), by))
    ELSE Raise("ValueError", "You must provide either currency or currencies.")

p2p_summary(currency, currencies, by) ==
    IF currencies # None /\ currency # None
    THEN Raise("ValueError", "Use either currency OR currencies, not both.")
    ELSE IF currencies # None
    THEN Reads(<<"p2p_master">>,
               SummaryOf(SelectSeq(load_binance_master,
                                LAMBDA r : r["currency"] \in currencies[1]), by))
    ELSE IF currency # None
    THEN Reads(<<"historical_fiat">>,
               SummaryOf(load_binance_currency(currency[1]), by))
    ELSE Raise("ValueError", "You must provide either currency or currencies.")

(* pd.to_datetime(iso).date(): the calendar date <<year, month, day>>. *)
ToDate(iso) == <<iso \div 10000, (iso \div 100) % 100, iso % 100>>

DateLeq(a, b) ==
    \/ a[1] < b[1]
    \/ a[1] = b[1] /\ a[2] < b[2]
    \/ a[1] = b[1] /\ a[2] = b[2] /\ a[3] <= b[3]

(* Lines 168-177: one row per merchant of df. *)
MerchantRows(df) ==
    {[merchant_name |-> m,
      ads_count |-> Num(Len(SelectSeq(df, LAMBDA r : r["merchant_name"] = m)), 1),
      total_volume |->
          FSum(Floats(Col(SelectSeq(df, LAMBDA r : r["merchant_name"] = m), "max_amount"))),
      avg_finish_rate |->
          FMean(Floats(Col(SelectSeq(df, LAMBDA r : r["merchant_name"] = m), "finish_rate"))),
      avg_positive_rate |->
          FMean(Floats(Col(SelectSeq(df, LAMBDA r : r["merchant_name"] = m),
                           "positive_rate")))]
     : m \in {df[i]["merchant_name"] : i \in 1..Len(df)}}

(* The rows in non-decreasing order instead. *)
SortedDescending_Ascending(S, sort_col) ==
    {s \in [1..Cardinality(S) -> S] :
        /\ \A i, j \in DOMAIN s : i # j => s[i] # s[j]
        /\ \A i \in DOMAIN s : i > 1 => FLeq(s[i - 1][sort_col], s[i][sort_col])}

(* sort_values(sort_col, ascending=False): every arrangement of the rows S in     *)
(* non-increasing sort_col; the order among equal values is the sort algorithm's. *)
SortedDescending(S, sort_col) ==
    {s \in [1..Cardinality(S) -> S] :
        /\ \A i, j \in DOMAIN s : i # j => s[i] # s[j]
        /\ \A i \in DOMAIN s : i > 1 => FLeq(s[i][sort_col], s[i - 1][sort_col])}

(* A tie order that is reversed once a call has been made. *)
TieRank_ByCallCount(r) ==
    LET rank == CHOOSE i \in 1..Len(ties) : ties[i] = r["merchant_name"]
    IN IF history = <<>> THEN rank ELSE -rank

(* The order among equal keys is fixed by the sort algorithm of the build,  *)
(* the same on every call; ties holds it as a ranking of the merchants.     *)
TieRank(r) == CHOOSE i \in 1..Len(ties) : ties[i] = r["merchant_name"]

(* sort_values(sort_col, ascending=False) as the build performs it. *)
sort_values(S, sort_col) ==
    {s \in SortedDescending(S, sort_col) :
        \A i, j \in DOMAIN s :
            (i < j /\ s[i][sort_col] = s[j][sort_col]) => TieRank(s[i]) < TieRank(s[j])}

(* DataFrame.head(n). *)
head(s, n) ==
    IF n >= 0
    THEN SubSeq(s, 1, IF n < Len(s) THEN n ELSE Len(s))
    ELSE SubSeq(s, 1, IF Len(s) + n > 0 THEN Len(s) + n ELSE 0)

TopCols ==
    {"merchant_name", "ads_count", "total_volume", "avg_finish_rate",
     "avg_positive_rate", "currency"}

(* Lines 150-163: the side filter and the inclusive date-range filter. *)
TopFiltered(df0, side, start_date, end_date) ==
    LET df1 == IF side # None THEN SelectSeq(df0, LAMBDA r : r["side"] = side[1]) ELSE df0
        df2 == WithCol(df1, "date", [i \in 1..Len(df1) |-> ToDate(df1[i]["date"])])
        df3 == IF start_date # None
               THEN SelectSeq(df2, LAMBDA r : DateLeq(ToDate(start_date[1]), r["date"]))
               ELSE df2
    IN IF end_date # None
       THEN SelectSeq(df3, LAMBDA r : DateLeq(r["date"], ToDate(end_date[1])))
       ELSE df3

(* The outcomes of the call, as a set: one outcome for a given tie order. *)
top_advertisers(currency, side, start_date, end_date, metric, n) ==
    LET df == TopFiltered(load_binance_currency(currency), side, start_date, end_date)
        finish(sorted) ==
            LET kept == head(sorted, n)
                top == WithCol(kept, "currency", [i \in 1..Len(kept) |-> currency])
            IN IF side # None
               THEN Frame(TopCols \cup {"side"},
                          WithCol(top, "side", [i \in 1..Len(top) |-> side[1]]))
               ELSE Frame(TopCols, top)
    IN IF df = <<>>
       THEN {Reads(<<"historical_fiat">>, Ok(Frame(ListingCols, <<>>)))}
       ELSE IF metric \notin {"volume", "ads"}
       THEN {Reads(<<"historical_fiat">>,
                   Raise("ValueError", "metric must be 'volume' or 'ads'."))}
       ELSE {Reads(<<"historical_fiat">>, Ok(finish(sorted))) :
                sorted \in sort_values(
                               MerchantRows(df),
                               IF metric = "volume" THEN "total_volume" ELSE "ads_count")}

(* np.log of a float: log(n/d) is kept as the exact rational under the log. *)
Log(x) ==
    CASE IsNaN(x) -> NaN
      [] IsInf(x) -> IF x.n > 0 THEN Inf(1) ELSE NaN
      [] x.n < 0 -> NaN
      [] x.n = 0 -> Inf(-1)
      [] OTHER -> [k |-> "log", n |-> x.n, d |-> x.d]

(* a - b of two np.log values: log(p) - log(q) = log(p/q). *)
LogSub(a, b) ==
    CASE IsNaN(a) \/ IsNaN(b) -> NaN
      [] IsInf(a) /\ IsInf(b) -> IF a.n = b.n THEN NaN ELSE a
      [] IsInf(a) -> a
      [] IsInf(b) -> Inf(-b.n)
      [] OTHER -> LET q == Num(a.n * b.d, a.d * b.n)
                  IN [k |-> "log", n |-> q.n, d |-> q.d]

(* rows.groupby(by)["log_price"].diff() at row i. *)
LogReturn(rows, by, i) ==
    LET j == PrevInGroup(rows, by, i)
    IN IF j = 0 THEN NaN ELSE LogSub(rows[i]["log_price"], rows[j]["log_price"])

RECURSIVE Ascending(_)
Ascending(S) ==
    IF S = {} THEN <<>>
    ELSE LET m == CHOOSE x \in S : \A y \in S : x <= y
         IN <<m>> \o Ascending(S \ {m})

(* The sample standard deviation of the observations obs, kept symbolic. *)
Std(obs) == [k |-> "std", n |-> 0, d |-> 0, of |-> obs]

(* The rolling deviation with one observation fewer required. *)
RollingStd_ShortWindow(rows, by, c, i, window) ==
    LET idx == {j \in 1..i : rows[j][by] = rows[i][by]}
        win == {j \in idx : Cardinality({k \in idx : k >= j}) <= window}
        obs == {j \in win : ~IsNaN(rows[j][c])}
        order == Ascending(obs)
    IN IF Cardinality(obs) < window - 1 THEN NaN
       ELSE IF window < 2 \/ \E j \in obs : IsInf(rows[j][c]) THEN NaN
       ELSE Std([p \in 1..Len(order) |-> rows[order[p]][c]])

(* rows.groupby(by)[c].rolling(window=window).std() at row i: the last   *)
(* window rows of the group up to i; min_periods defaults to window, so   *)
(* fewer than window non-NaN observations give NaN; ddof = 1.            *)
RollingStd(rows, by, c, i, window) ==
    LET idx == {j \in 1..i : rows[j][by] = rows[i][by]}
        win == {j \in idx : Cardinality({k \in idx : k >= j}) <= window}
        obs == {j \in win : ~IsNaN(rows[j][c])}
        order == Ascending(obs)
    IN IF Cardinality(obs) < window THEN NaN
       ELSE IF window < 2 \/ \E j \in obs : IsInf(rows[j][c]) THEN NaN
       ELSE Std([p \in 1..Len(order) |-> rows[order[p]][c]])

price_volatility(currency, by, window) ==
    LET mid(s) == WithCol(s, "mid_price", [i \in 1..Len(s) |-> Mid(s[i])])
        log(s) ==
            WithCol(s, "log_price", [i \in 1..Len(s) |-> Log(s[i]["mid_price"])])
        returns(s) ==
            WithCol(s, "log_return",
                    [i \in 1..Len(s) |-> LogReturn(s, "currency", i)])
        vols(s) ==
            WithCol(s, "volatility",
                    [i \in 1..Len(s) |->
                        RollingStd(s, "currency", "log_return", i, window)])
        finish(agg) ==
            IF ~({"avg_buy_price", "avg_sell_price"} \subseteq agg.cols)
            THEN Raise("KeyError", "avg_price")
            ELSE Ok(Frame(agg.cols \cup
                            {"mid_price", "log_price", "log_return", "volatility"},
                          vols(returns(log(SortKeys(Range(mid(agg.rows)),
                                                    SortCols(by)))))))
        grouped(prep) ==
            IF prep.exc # "none"
            THEN Raise("ValueError", "by must be 'day' or 'hour'.")
            ELSE finish(RenameFrame(
                     PivotBySide(prep.df, prep.group_cols, "price", "mean", NaN),
                     PriceNames))
    IN Reads(<<"historical_fiat">>,
             grouped(_prepare_time_grouping(load_binance_currency(currency), by)))

-----------------------------------------------------------------------------
(* premium.py *)

PremiumCols ==
    {"date", "currency", "p2p_avg_price", "official_exchange_rate", "premium_abs",
     "premium_pct"}

(* daily.merge(rates, on=["date", "currency"], how="inner"): every pair of a *)
(* daily row and a rate row with the same date and currency.                 *)
RECURSIVE InnerJoin(_, _)
InnerJoin(daily, rates) ==
    IF daily = <<>> THEN <<>>
    ELSE LET l == Head(daily)
             hits == SelectSeq(rates, LAMBDA r : /\ r["date"] = l["date"]
                                            /\ r["currency"] = l["currency"])
         IN [i \in 1..Len(hits) |->
                Merge(l, [official_exchange_rate |->
                              Num(hits[i]["official_exchange_rate"], 1)])]
            \o InnerJoin(Tail(daily), rates)

PremiumAbs(r) == FAbs(FSub(r["p2p_avg_price"], r["official_exchange_rate"]))

PremiumPct(r) ==
    FMul(FSub(FDiv(r["p2p_avg_price"], r["official_exchange_rate"]), Num(1, 1)),
         Num(PctScale, 1))

official_premium(currency, by) ==
    IF by # "day"
    THEN Raise("NotImplementedError", "Only by='day' is implemented for now.")
    ELSE LET p2p_avg_price(s) ==
                 WithCol(s, "p2p_avg_price", [i \in 1..Len(s) |-> Mid(s[i])])
             premium_abs(s) ==
                 WithCol(s, "premium_abs", [i \in 1..Len(s) |-> PremiumAbs(s[i])])
             premium_pct(s) ==
                 WithCol(s, "premium_pct", [i \in 1..Len(s) |-> PremiumPct(s[i])])
             columns(s) ==
                 [i \in 1..Len(s) |-> [c \in PremiumCols |-> s[i][c]]]
             df_bcb_cur ==
                 SelectSeq(load_bcb_master, LAMBDA r : r["currency"] = currency)
             finish(core) ==
                 IF core.exc # "none"
                 THEN Reads(<<"historical_fiat">>, core)
                 ELSE Reads(<<"historical_fiat", "bcb_master">>,
                            Ok(Frame(PremiumCols,
                                     columns(premium_pct(premium_abs(
                                         InnerJoin(p2p_avg_price(core.frame.rows),
                                                   df_bcb_cur)))))))
         IN finish(_p2p_spread_core(load_binance_currency(currency), currency, "day"))

-----------------------------------------------------------------------------
(* The tables the loader can hold. *)

Listing(date, h, currency, side, price, max_amount, merchant_name) ==
    [scrape_datetime |-> date * 100 + h, date |-> date, currency |-> currency,
     side |-> side, price |-> price, max_amount |-> max_amount,
     merchant_name |-> merchant_name, finish_rate |-> 1, positive_rate |-> 1,
     run_index |-> 1]

Rate(date, currency, rate) ==
    [date |-> date, currency |-> currency, official_exchange_rate |-> rate]

Sides == {"BUY", "SELL"}

Hours == {10, 11}

Dates(n) == {FirstDate + i : i \in 0..(n - 1)}

SeqsUpTo(S, n) == UNION {[1..m -> S] : m \in 0..n}

RECURSIVE Concat(_)
Concat(ss) == IF ss = <<>> THEN <<>> ELSE Head(ss) \o Concat(Tail(ss))

(* Listings of one currency in two hours of one day, any price sign. *)
SpreadRows ==
    {Listing(FirstDate, h, "ARS", s, p, 1, "A") : h \in Hours, s \in Sides, p \in -1..1}

TablesSpread == SeqsUpTo(SpreadRows, MaxRows)

(* Listings of one currency in two hours of one day, any amount sign. *)
VolumeRows ==
    {Listing(FirstDate, h, "ARS", s, 1, a, "A") : h \in Hours, s \in Sides, a \in -1..2}

TablesVolume == SeqsUpTo(VolumeRows, MaxVolumeRows)

(* Listings of two merchants on two days (BUY on both, SELL on the first): *)
(* A lists 1, B lists 1 or 3.                                              *)
MerchantListings ==
    {Listing(ds[1], 10, "ARS", ds[2], 1, ma[2], ma[1]) :
        ds \in (Dates(2) \X Sides) \ {<<FirstDate + 1, "SELL">>},
        ma \in {<<"A", 1>>, <<"B", 1>>, <<"B", 3>>}}

TablesMerchant == SeqsUpTo(MerchantListings, MaxMerchantRows) \ {<<>>}

ArgRows == {Listing(FirstDate, 10, c, s, 1, 1, "A") : c \in CurrencySet, s \in Sides}

TablesArgs == SeqsUpTo(ArgRows, MaxArgRows)

(* At most one BUY and one SELL listing per slot: price 0 stands for no listing. *)
SlotListings(date, h, currency, buy, sell) ==
    (IF buy = 0 THEN <<>> ELSE <<Listing(date, h, currency, "BUY", buy, 1, "A")>>)
    \o (IF sell = 0 THEN <<>> ELSE <<Listing(date, h, currency, "SELL", sell, 1, "A")>>)

TablesVol ==
    {Concat([i \in 1..MaxVolDates |->
                SlotListings(FirstDate + i - 1, 10, "ARS", f[i][1], f[i][2])]) :
        f \in [1..MaxVolDates -> (0..2) \X (0..2)]}

(* The slots of the summary tables: hour 10 of every day, and hour 11 of the first. *)
SummarySlots ==
    [i \in 1..(MaxSummaryDates + 1) |->
        IF i = 1 THEN <<FirstDate, 11>> ELSE <<FirstDate + i - 2, 10>>]

SlotPrices == {<<0, 0>>, <<1, 0>>, <<1, 1>>, <<1, 3>>}

OtherSlotPrices == {<<0, 0>>, <<2, 2>>}

TablesSummary ==
    {Concat([i \in 1..Len(SummarySlots) |->
                SlotListings(SummarySlots[i][1], SummarySlots[i][2], "ARS",
                             f[i][1][1], f[i][1][2])
                \o SlotListings(SummarySlots[i][1], SummarySlots[i][2], "BOB",
                                f[i][2][1], f[i][2][2])]) :
        f \in [1..Len(SummarySlots) -> SlotPrices \X OtherSlotPrices]}

TablesPremium ==
    {Concat([i \in 1..MaxPremiumDates |->
                SlotListings(FirstDate + i - 1, 10, "ARS", f[i][1], f[i][2])]) :
        f \in [1..MaxPremiumDates -> {0, 1, 3} \X {0, 1}]}

(* At most one rate per date: -1 stands for no record, 9 for a BOB record. *)
RatesPremium ==
    {Concat([i \in 1..MaxPremiumDates |->
                IF g[i] = -1 THEN <<>>
                ELSE IF g[i] = 9 THEN <<Rate(FirstDate + i - 1, "BOB", 2)>>
                ELSE <<Rate(FirstDate + i - 1, "ARS", g[i])>>]) :
        g \in [1..MaxPremiumDates -> {-1, 0, 2, 9}]}

(* The side column is a free string in the files: BUY, SELL or another label. *)
SideLabels == Sides \cup {"HOLD"}

SideRows ==
    {Listing(FirstDate, 10, "ARS", s, p, 1, "A") : s \in SideLabels, p \in 1..2}

TablesSides == SeqsUpTo(SideRows, MaxSideRows)

Merchants == {"A", "B"}

(* The rankings of the merchants a sort algorithm can give to equal keys. *)
TieOrders ==
    {s \in [1..Cardinality(Merchants) -> Merchants] :
        \A i, j \in DOMAIN s : i # j => s[i] # s[j]}

(* Listings of two merchants with equal amounts in one hour, and one rate. *)
CallRows == {Listing(FirstDate, 10, "ARS", s, 1, 1, m) : s \in Sides, m \in Merchants}

TablesCalls == SeqsUpTo(CallRows, MaxCallRows) \ SeqsUpTo(CallRows, MaxCallRows - 1)

RatesCalls == {<<Rate(FirstDate, "ARS", 2)>>}

NoCall == [fn |-> "none", args |-> <<>>]

(* The files written by the upstream pipeline: a master table, its split *)
(* into one file per currency, and the rate table; orders holds the tie  *)
(* orders of the sort (one stands for all where no call sorts).          *)
InitFrom(tables, rates, orders) ==
    /\ master \in tables
    /\ fiat = [c \in CurrencySet |-> SelectSeq(master, LAMBDA r : r["currency"] = c)]
    /\ bcb \in rates
    /\ pc = "idle"
    /\ call = NoCall
    /\ outcome = [exc |-> "none", msg |-> ""]
    /\ result = EmptyFrame
    /\ loads = <<>>
    /\ ties \in orders
    /\ history = <<>>

InitWith(tables, rates) == InitFrom(tables, rates, {CHOOSE o \in TieOrders : TRUE})

-----------------------------------------------------------------------------
(* Calls of the public functions. *)

Return(fn, args, o) ==
    /\ pc' = "returned"
    /\ call' = [fn |-> fn, args |-> args]
    /\ outcome' = [exc |-> o.exc, msg |-> o.msg]
    /\ result' = o.frame
    /\ loads' = o.loads
    /\ history' = Append(history, [fn |-> fn, args |-> args, exc |-> o.exc, msg |-> o.msg,
                                   frame |-> o.frame])
    /\ UNCHANGED <<fiat, master, bcb, ties>>

Bys == {"day", "hour", "week"}

CallSpread(cs, bys) ==
    \E c \in cs, by \in bys :
        /\ pc = "idle"
        /\ Return("p2p_spread", [currency |-> c, by |-> by], p2p_spread(c, by))

CallFiatComparison(css) ==
    \E cs \in css :
        /\ pc = "idle"
        /\ Return("fiat_comparison", [currencies |-> cs], fiat_comparison(cs))

CallOrderImbalance(cs, bys) ==
    \E c \in cs, by \in bys :
        /\ pc = "idle"
        /\ Return("order_imbalance", [currency |-> c, by |-> by],
                  order_imbalance(c, by))

CallSummary(cs, css, bys) ==
    \E c \in cs, cc \in css, by \in bys :
        /\ pc = "idle"
        /\ Return("p2p_summary", [currency |-> c, currencies |-> cc, by |-> by],
                  p2p_summary(c, cc, by))

CallTopAdvertisers(sides, starts, ends, metrics, ns) ==
    \E side \in sides, start \in starts, end \in ends, metric \in metrics, n \in ns :
        /\ pc = "idle"
        /\ \E o \in top_advertisers("ARS", side, start, end, metric, n) :
              Return("top_advertisers",
                     [currency |-> "ARS", side |-> side, start_date |-> start,
                      end_date |-> end, metric |-> metric, n |-> n], o)

CallVolatility(cs, bys, windows) ==
    \E c \in cs, by \in bys, w \in windows :
        /\ pc = "idle"
        /\ Return("price_volatility", [currency |-> c, by |-> by, window |-> w],
                  price_volatility(c, by, w))

CallPremium(cs, bys) ==
    \E c \in cs, by \in bys :
        /\ pc = "idle"
        /\ Return("official_premium", [currency |-> c, by |-> by],
                  official_premium(c, by))

CallIntraday(cs) ==
    \E c \in cs :
        /\ pc = "idle"
        /\ Return("intraday_profile", [currency |-> c], intraday_profile(c))

(* The caller goes on to its next call. *)
CallAgain ==
    /\ pc = "returned"
    /\ Len(history) < MaxCalls
    /\ pc' = "idle"
    /\ UNCHANGED <<fiat, master, bcb, call, outcome, result, loads, ties, history>>

-----------------------------------------------------------------------------
(* Specifications: one family of tables each. *)

(* Spread tables: every function whose rows are one per bucket. *)
Init == InitWith(TablesSpread, {<<>>})

Next ==
    \/ CallSpread({"ARS"}, {"day", "hour"})
    \/ CallFiatComparison({{"ARS"}})
    \/ CallSummary({Some("ARS")}, {None}, {"day", "hour"})
    \/ CallVolatility({"ARS"}, {"day", "hour"}, {2})
    \/ CallOrderImbalance({"ARS"}, {"hour"})

Spec == Init /\ [][Next]_vars

(* Volume tables: order imbalance. *)
InitImbalance == InitWith(TablesVolume, {<<>>})

NextImbalance == CallOrderImbalance({"ARS"}, {"hour", "day"})

SpecImbalance == InitImbalance /\ [][NextImbalance]_vars

(* One listing per side and day: rolling volatility. *)
InitVol == InitWith(TablesVol, {<<>>})

NextVol == CallVolatility({"ARS"}, {"day", "hour"}, 1..MaxWindow)

SpecVol == InitVol /\ [][NextVol]_vars

(* Two currencies over several buckets: the summary's changes. *)
InitSummary == InitWith(TablesSummary, {<<>>})

NextSummary == CallSummary({None}, {Some(CurrencySet), Some({"BOB"})}, {"day", "hour"})

SpecSummary == InitSummary /\ [][NextSummary]_vars

(* Every combination of the summary's selectors. *)
InitArgs == InitWith(TablesArgs, {<<>>})

NextArgs ==
    CallSummary({None, Some("ARS"), Some("BOB")},
                {None, Some({}), Some({"ARS"}), Some(CurrencySet)}, Bys)

SpecArgs == InitArgs /\ [][NextArgs]_vars

(* Merchant tables: the ranking. *)
InitTop == InitFrom(TablesMerchant, {<<>>}, TieOrders)

NextTop ==
    CallTopAdvertisers({None, Some("BUY")}, {None, Some(FirstDate + 1)},
                       {None, Some(FirstDate)}, {"volume", "ads", "price"}, 0..MaxN)

SpecTop == InitTop /\ [][NextTop]_vars

(* Listings and official rates: the premium. *)
InitPremium == InitWith(TablesPremium, RatesPremium)

NextPremium == CallPremium({"ARS"}, {"day", "hour"})

SpecPremium == InitPremium /\ [][NextPremium]_vars

(* The pivoting functions over listing files with any side label. *)
InitSides == InitWith(TablesSides, {<<>>})

NextSides ==
    \/ CallSpread({"ARS"}, {"day", "hour"})
    \/ CallFiatComparison({{"ARS"}})
    \/ CallSummary({Some("ARS")}, {None}, {"day", "hour"})
    \/ CallOrderImbalance({"ARS"}, {"hour"})

SpecSides == InitSides /\ [][NextSides]_vars

(* Sequences of calls of every public function over the same files. *)
InitCalls == InitFrom(TablesCalls, RatesCalls, TieOrders)

NextCalls ==
    \/ CallSpread({"ARS"}, {"hour"})
    \/ CallIntraday({"ARS"})
    \/ CallFiatComparison({{"ARS"}})
    \/ CallPremium({"ARS"}, {"day"})
    \/ CallOrderImbalance({"ARS"}, {"hour"})
    \/ CallSummary({Some("ARS")}, {None}, {"hour"})
    \/ CallTopAdvertisers({None}, {None}, {None}, {"volume"}, {1})
    \/ CallVolatility({"ARS"}, {"hour"}, {2})
    \/ CallAgain

SpecCalls == InitCalls /\ [][NextCalls]_vars

-----------------------------------------------------------------------------
(* Properties. *)

Done(fns) == pc = "returned" /\ call.fn \in fns

Succeeded(fns) == Done(fns) /\ outcome.exc = "none"

(* The listing set the returned call worked on. *)
ListingsOf ==
    CASE call.fn = "fiat_comparison" ->
            SelectSeq(master, LAMBDA l : l["currency"] \in call.args.currencies)
      [] call.fn = "p2p_summary" /\ call.args.currencies # None ->
            SelectSeq(master, LAMBDA l : l["currency"] \in call.args.currencies[1])
      [] call.fn = "p2p_summary" -> fiat[call.args.currency[1]]
      [] OTHER -> fiat[call.args.currency]

(* Listing l belongs to the bucket of output row r. *)
InBucket(l, r) ==
    /\ l["date"] = r["date"]
    /\ l["currency"] = r["currency"]
    /\ "hour" \in DOMAIN r => l["scrape_datetime"] % 100 = r["hour"]

BucketValues(r, side, c) ==
    Floats(Col(SelectSeq(ListingsOf, LAMBDA l : InBucket(l, r) /\ l["side"] = side), c))

BucketAvg(r, side) == FMean(BucketValues(r, side, "price"))

BucketSpread(r) == FAbs(FSub(BucketAvg(r, "SELL"), BucketAvg(r, "BUY")))

BucketMid(r) == FDiv(FAdd(BucketAvg(r, "SELL"), BucketAvg(r, "BUY")), Num(2, 1))

IsZero(x) == IsNum(x) /\ x.n = 0

SpreadFns == {"p2p_spread", "fiat_comparison", "p2p_summary"}

BucketVolume(r, side) == FSum(BucketValues(r, side, "max_amount"))

(* C2 as stated: on every row of orderImbalance the volumes are the bucket   *)
(* sums of max_amount, imbalance is 0 when buy + sell = 0, is                *)
(* (buy - sell) / (buy + sell) for every other denominator, and is in [-1,1]. *)
C2_AsStated ==
    Succeeded({"order_imbalance"}) =>
        \A i \in 1..Len(result.rows) :
            LET r == result.rows[i]
                buy == BucketVolume(r, "BUY")
                sell == BucketVolume(r, "SELL")
                denom == FAdd(buy, sell)
            IN /\ r["buy_volume"] = buy
               /\ r["sell_volume"] = sell
               /\ r["imbalance"]
                      = IF IsZero(denom) THEN Num(0, 1) ELSE FDiv(FSub(buy, sell), denom)
               /\ FLeq(Num(-1, 1), r["imbalance"])
               /\ FLeq(r["imbalance"], Num(1, 1))

(* C2, amended: on every row of orderImbalance the volumes are the bucket    *)
(* sums of max_amount, imbalance is 0 when buy + sell <= 0, is               *)
(* (buy - sell) / (buy + sell) when buy + sell > 0, and is in [-1, 1]        *)
(* whenever neither volume is negative.                                      *)
C2_Imbalance ==
    Succeeded({"order_imbalance"}) =>
        \A i \in 1..Len(result.rows) :
            LET r == result.rows[i]
                buy == BucketVolume(r, "BUY")
                sell == BucketVolume(r, "SELL")
                denom == FAdd(buy, sell)
            IN /\ r["buy_volume"] = buy
               /\ r["sell_volume"] = sell
               /\ r["imbalance"]
                      = IF denom.n <= 0 THEN Num(0, 1) ELSE FDiv(FSub(buy, sell), denom)
               /\ (buy.n >= 0 /\ sell.n >= 0) =>
                      /\ FLeq(Num(-1, 1), r["imbalance"])
                      /\ FLeq(r["imbalance"], Num(1, 1))

(* A returned imbalance table with a zero-denominator bucket next to one with *)
(* a positive denominator and listings on both sides.                        *)
C2_Witness ==
    /\ Succeeded({"order_imbalance"})
    /\ \E i, j \in 1..Len(result.rows) :
          /\ IsZero(FAdd(result.rows[i]["buy_volume"], result.rows[i]["sell_volume"]))
          /\ IsZero(result.rows[i]["imbalance"])
          /\ result.rows[j]["buy_volume"].n > 0
          /\ result.rows[j]["sell_volume"].n > 0
          /\ ~IsZero(result.rows[j]["imbalance"])

(* Every bucket of the listings has a BUY and a SELL listing and a positive mid. *)
BothSidesEverywhere(df) ==
    \A i \in 1..Len(df) :
        /\ \A side \in Sides :
              \E j \in 1..Len(df) :
                  /\ df[j]["date"] = df[i]["date"]
                  /\ df[j]["scrape_datetime"] = df[i]["scrape_datetime"]
                  /\ df[j]["side"] = side
        /\ df[i]["price"] > 0

VolatilityCase ==
    /\ Succeeded({"price_volatility"})
    /\ call.args.window >= 2
    /\ BothSidesEverywhere(ListingsOf)

(* The log-return of row j > 1 of the result: log(mid_j / mid_(j-1)). *)
ExpectedLogReturn(j) ==
    LET q == FDiv(BucketMid(result.rows[j]), BucketMid(result.rows[j - 1]))
    IN [k |-> "log", n |-> q.n, d |-> q.d]

Chronological(rows) ==
    \A i, j \in 1..Len(rows) :
        i < j => \/ rows[i]["date"] < rows[j]["date"]
                 \/ /\ rows[i]["date"] = rows[j]["date"]
                    /\ "hour" \in DOMAIN rows[i]
                    /\ rows[i]["hour"] < rows[j]["hour"]

(* C3 as stated: with window w >= 2 and both sides in every bucket, the      *)
(* volatility is NaN on exactly the first w-1 rows of the sorted result.     *)
C3_AsStated ==
    VolatilityCase =>
        \A i \in 1..Len(result.rows) :
            IsNaN(result.rows[i]["volatility"]) <=> i <= call.args.window - 1

(* C3, amended: with window w >= 2 and both sides in every bucket, the rows  *)
(* are in chronological order, the volatility is NaN on exactly the first w  *)
(* rows, and on every later row it is the standard deviation of the w most   *)
(* recent log-returns log(mid_j / mid_(j-1)).                                *)
C3_Volatility ==
    VolatilityCase =>
        /\ Chronological(result.rows)
        /\ \A i \in 1..Len(result.rows) :
              LET w == call.args.window
              IN IF i <= w
                 THEN IsNaN(result.rows[i]["volatility"])
                 ELSE result.rows[i]["volatility"]
                          = Std([p \in 1..w |-> ExpectedLogReturn(i - w + p)])

(* A returned volatility table with more rows than the window and prices that move. *)
C3_Witness ==
    /\ VolatilityCase
    /\ Len(result.rows) > call.args.window
    /\ \E i \in 1..Len(result.rows) :
          /\ result.rows[i]["volatility"].k = "std"
          /\ \E p, q \in 1..Len(result.rows[i]["volatility"].of) :
                result.rows[i]["volatility"].of[p] # result.rows[i]["volatility"].of[q]

SelectorMessages ==
    {"Use either currency OR currencies, not both.",
     "You must provide either currency or currencies."}

(* C4: p2pSummary with both selectors or with neither raises the selector    *)
(* ValueError whatever the granularity, before any loader read and without   *)
(* a result table; with exactly one selector it does not raise that error.   *)
C4_Selectors ==
    Done({"p2p_summary"}) =>
        IF (call.args.currency # None) = (call.args.currencies # None)
        THEN /\ outcome.exc = "ValueError"
             /\ outcome.msg \in SelectorMessages
             /\ loads = <<>>
             /\ result = EmptyFrame
        ELSE outcome.msg \notin SelectorMessages

(* A summary call with both selectors and an unsupported granularity, over   *)
(* non-empty tables, that ended in the selector error.                       *)
C4_Witness ==
    /\ Done({"p2p_summary"})
    /\ call.args.currency # None
    /\ call.args.currencies # None
    /\ call.args.by = "week"
    /\ master # <<>>
    /\ outcome.exc = "ValueError"

(* The listings that pass the side filter and the inclusive date range of the call. *)
PassesFilters(l) ==
    /\ call.args.side # None => l["side"] = call.args.side[1]
    /\ call.args.start_date # None => l["date"] >= call.args.start_date[1]
    /\ call.args.end_date # None => l["date"] <= call.args.end_date[1]

FilteredListings == SelectSeq(fiat[call.args.currency], PassesFilters)

RankingColumns ==
    {"merchant_name", "ads_count", "total_volume", "avg_finish_rate",
     "avg_positive_rate", "currency"}
    \cup (IF call.args.side # None THEN {"side"} ELSE {})

ValidMetric == call.args.metric \in {"volume", "ads"}

(* C5 as stated: topAdvertisers with valid arguments and no listing left by  *)
(* the filters returns, without error, zero rows under the column set of a   *)
(* non-empty ranking (with side when a side filter is given).                *)
C5_AsStated ==
    (Done({"top_advertisers"}) /\ ValidMetric /\ FilteredListings = <<>>) =>
        /\ outcome.exc = "none"
        /\ result.rows = <<>>
        /\ result.cols = RankingColumns

(* C6 as stated: topAdvertisers with a metric other than volume and ads ends *)
(* in the metric ValueError and returns no table, whatever the dataset and   *)
(* the filters.                                                              *)
C6_AsStated ==
    (Done({"top_advertisers"}) /\ ~ValidMetric) =>
        /\ outcome.exc = "ValueError"
        /\ result = EmptyFrame

FilteredMerchants == {FilteredListings[i]["merchant_name"] : i \in 1..Len(FilteredListings)}

MerchantListingsOf(m) == SelectSeq(FilteredListings, LAMBDA l : l["merchant_name"] = m)

ExpectedVolume(m) == FSum(Floats(Col(MerchantListingsOf(m), "max_amount")))

ExpectedAds(m) == Num(Len(MerchantListingsOf(m)), 1)

ExpectedMetric(m) ==
    IF call.args.metric = "volume" THEN ExpectedVolume(m) ELSE ExpectedAds(m)

RankingCase ==
    /\ Done({"top_advertisers"})
    /\ ValidMetric
    /\ call.args.n >= 0
    /\ FilteredListings # <<>>

(* C7: topAdvertisers with metric volume or ads and n >= 0 on a non-empty    *)
(* filtered dataset returns min(n, number of distinct filtered merchants)    *)
(* rows, one per distinct merchant, with total_volume the sum of max_amount  *)
(* and ads_count the number of its filtered listings, in non-increasing      *)
(* metric order, and no merchant left out has a larger metric value than a   *)
(* merchant included.                                                        *)
C7_Ranking ==
    RankingCase =>
        LET rows == result.rows
            included == {rows[i]["merchant_name"] : i \in 1..Len(rows)}
        IN /\ outcome.exc = "none"
           /\ Len(rows) = IF call.args.n < Cardinality(FilteredMerchants)
                          THEN call.args.n ELSE Cardinality(FilteredMerchants)
           /\ Cardinality(included) = Len(rows)
           /\ included \subseteq FilteredMerchants
           /\ \A i \in 1..Len(rows) :
                 /\ rows[i]["total_volume"] = ExpectedVolume(rows[i]["merchant_name"])
                 /\ rows[i]["ads_count"] = ExpectedAds(rows[i]["merchant_name"])
                 /\ i > 1 => FLeq(ExpectedMetric(rows[i]["merchant_name"]),
                                  ExpectedMetric(rows[i - 1]["merchant_name"]))
                 /\ \A m \in FilteredMerchants \ included :
                       FLeq(ExpectedMetric(m), ExpectedMetric(rows[i]["merchant_name"]))

(* A ranking truncated to one of two merchants whose volumes differ, with    *)
(* both filters given and a listing filtered out.                            *)
C7_Witness ==
    /\ RankingCase
    /\ call.args.n = 1
    /\ call.args.metric = "volume"
    /\ call.args.side # None
    /\ call.args.start_date # None
    /\ Len(FilteredListings) < Len(fiat[call.args.currency])
    /\ Cardinality(FilteredMerchants) = 2
    /\ Len(result.rows) = 1
    /\ \E m \in FilteredMerchants :
          FLess(ExpectedVolume(m), result.rows[1]["total_volume"])

(* The buckets of the listings at the granularity of the call. *)
BucketKeys ==
    {IF call.args.by = "hour"
     THEN [date |-> ListingsOf[i]["date"], currency |-> ListingsOf[i]["currency"],
           hour |-> ListingsOf[i]["scrape_datetime"] % 100]
     ELSE [date |-> ListingsOf[i]["date"], currency |-> ListingsOf[i]["currency"]] :
        i \in 1..Len(ListingsOf)}

Before(a, b) ==
    \/ a["date"] < b["date"]
    \/ /\ a["date"] = b["date"]
       /\ "hour" \in DOMAIN b
       /\ a["hour"] < b["hour"]

EarlierBuckets(r) ==
    {b \in BucketKeys : b["currency"] = r["currency"] /\ Before(b, r)}

PreviousBucket(r) ==
    CHOOSE b \in EarlierBuckets(r) : \A x \in EarlierBuckets(r) \ {b} : Before(x, b)

SummaryCase == Succeeded({"p2p_summary"}) /\ call.args.currencies # None

(* C8: in p2pSummary over several currencies, mid_price is                   *)
(* (avg_buy_price + avg_sell_price) / 2; the chronologically first row of a  *)
(* currency has NaN mid_price_change, mid_price_pct_change,                  *)
(* spread_abs_change and spread_pct_change; every later row's                *)
(* mid_price_change is its mid_price minus the mid_price of the immediately  *)
(* preceding bucket of the same currency.                                    *)
C8_Changes ==
    SummaryCase =>
        \A i \in 1..Len(result.rows) :
            LET r == result.rows[i]
            IN /\ r["avg_buy_price"] = BucketAvg(r, "BUY")
               /\ r["avg_sell_price"] = BucketAvg(r, "SELL")
               /\ r["mid_price"]
                      = FDiv(FAdd(r["avg_buy_price"], r["avg_sell_price"]), Num(2, 1))
               /\ IF EarlierBuckets(r) = {}
                  THEN /\ IsNaN(r["mid_price_change"])
                       /\ IsNaN(r["mid_price_pct_change"])
                       /\ IsNaN(r["spread_abs_change"])
                       /\ IsNaN(r["spread_pct_change"])
                  ELSE r["mid_price_change"]
                           = FSub(BucketMid(r), BucketMid(PreviousBucket(r)))

(* A summary of two currencies in which a later row of each has a numeric    *)
(* change, one of them nonzero.                                              *)
C8_Witness ==
    /\ SummaryCase
    /\ \E i, j \in 1..Len(result.rows) :
          /\ result.rows[i]["currency"] = "ARS"
          /\ result.rows[j]["currency"] = "BOB"
          /\ IsNum(result.rows[i]["mid_price_change"])
          /\ ~IsZero(result.rows[i]["mid_price_change"])
          /\ IsNum(result.rows[j]["mid_price_change"])

RateRecords(d) ==
    SelectSeq(bcb, LAMBDA x : x["date"] = d /\ x["currency"] = call.args.currency)

BothSidesOn(d) ==
    \A side \in Sides :
        \E i \in 1..Len(ListingsOf) :
            ListingsOf[i]["date"] = d /\ ListingsOf[i]["side"] = side

(* C9 as stated: officialPremium has a row for date d exactly when the       *)
(* listings have a bucket for d with both sides and the rate table has a     *)
(* record for d; on every row premium_abs = |p2p_mid - official_rate| and    *)
(* premium_pct = (p2p_mid / official_rate - 1) * 100, and premium_pct is NaN *)
(* when official_rate = 0.                                                   *)
C9_AsStated ==
    Succeeded({"official_premium"}) =>
        /\ \A d \in Dates(MaxPremiumDates) :
              (\E i \in 1..Len(result.rows) : result.rows[i]["date"] = d)
                  <=> (BothSidesOn(d) /\ RateRecords(d) # <<>>)
        /\ \A i \in 1..Len(result.rows) :
              LET r == result.rows[i]
                  mid == BucketMid(r)
                  rate == Num(RateRecords(r["date"])[1]["official_exchange_rate"], 1)
              IN /\ r["p2p_avg_price"] = mid
                 /\ r["official_exchange_rate"] = rate
                 /\ r["premium_abs"] = FAbs(FSub(mid, rate))
                 /\ r["premium_pct"]
                        = IF IsZero(rate) THEN NaN
                          ELSE FMul(FSub(FDiv(mid, rate), Num(1, 1)), Num(100, 1))

BucketFns == {"p2p_spread", "p2p_summary", "price_volatility", "order_imbalance"}

RowKey(r) ==
    IF call.args.by = "hour"
    THEN [date |-> r["date"], currency |-> r["currency"], hour |-> r["hour"]]
    ELSE [date |-> r["date"], currency |-> r["currency"]]

(* C10 as stated: spread, p2pSummary, priceVolatility and orderImbalance on  *)
(* a non-empty listing set do not end in an error and return exactly one row *)
(* per bucket with a listing, also when a side is missing from the bucket or *)
(* from the whole dataset; the missing side's price is NaN, so spread_abs    *)
(* and spread_pct are NaN, and the missing side's volume is 0.               *)
C10_AsStated ==
    (Done(BucketFns) /\ ListingsOf # <<>>) =>
        /\ outcome.exc = "none"
        /\ \A b \in BucketKeys :
              Cardinality({i \in 1..Len(result.rows) : RowKey(result.rows[i]) = b}) = 1
        /\ \A i \in 1..Len(result.rows) :
              LET r == result.rows[i]
              IN /\ RowKey(r) \in BucketKeys
                 /\ \A side \in Sides :
                       BucketValues(r, side, "price") = <<>> =>
                           IF call.fn = "order_imbalance"
                           THEN IsZero(r[VolumeNames[side]])
                           ELSE /\ IsNaN(r[PriceNames[side]])
                                /\ call.fn \in {"p2p_spread", "p2p_summary"} =>
                                      IsNaN(r["spread_abs"]) /\ IsNaN(r["spread_pct"])

PivotFns == {"p2p_spread", "fiat_comparison", "p2p_summary", "order_imbalance"}

HasOtherSide == \E i \in 1..Len(ListingsOf) : ListingsOf[i]["side"] \notin Sides

(* C11 as stated: spread, fiatComparison, p2pSummary and orderImbalance on a *)
(* listing set with a record whose side is neither BUY nor SELL end in an    *)
(* error and return no table.                                                *)
C11_AsStated ==
    (Done(PivotFns) /\ HasOtherSide) =>
        /\ outcome.exc # "none"
        /\ result = EmptyFrame

Files == <<fiat, master, bcb>>

SameCall(a, b) == a.fn = b.fn /\ a.args = b.args

Repeatable(h) == \A i, j \in DOMAIN h : SameCall(h[i], h[j]) => h[i] = h[j]

====
